---- MODULE Spec2Model ----
(***************************************************************************)
(* Model of scripts/generate_article.py: the staged generation pipeline of *)
(* main() (body -> parse -> title -> references), the references           *)
(* verify-then-regenerate protocol of generate_references(), and the pure  *)
(* text functions parse_article_response(), extract_links() and            *)
(* verify_link().                                                          *)
(*                                                                         *)
(* Texts are sequences of characters.  Two literals that the regular       *)
(* expressions match as a unit are kept as one element each: the hashtag   *)
(* marker HASHTAGS: and the URL scheme https://.  Neither literal can      *)
(* overlap itself, so treating it as one element loses no match.           *)
(***************************************************************************)
EXTENDS Naturals, Sequences, FiniteSets

VARIABLES
    pc,               \* position of main() in the pipeline
    api_key,          \* whether GEMINI_API_KEY is set in the environment
    article_type,     \* args.article_type
    additional_info,  \* args.additional_info (supplementary notes)
    live,             \* the outside world: the links a probe answers 200 for
    article_response, \* raw body text returned by generate_article
    content,          \* parsed content
    hashtags,         \* parsed hashtags
    title,            \* resolved title
    references,       \* references text handed to assembly
    artifact,         \* the document written by main(), <<>> while none
    calls,            \* log of generative-service calls, in order
    probes,           \* log of verify_link probes, in order
    verified_links,   \* generate_references: verified_links
    references_text,  \* generate_references: first-pass references_text
    references_links, \* generate_references: references_links
    invalid_links,    \* generate_references: invalid_links
    idx,              \* loop index of the link-verification loops
    fn_in,            \* input of the pure function under check
    fn_out            \* its result, a record once applied

vars == <<pc, api_key, article_type, additional_info, live, article_response, content,
          hashtags, title, references, artifact, calls, probes, verified_links,
          references_text, references_links, invalid_links, idx, fn_in, fn_out>>

pipelineVars == <<pc, api_key, article_type, additional_info, live, article_response,
                  content, hashtags, title, references, artifact, calls, probes,
                  verified_links, references_text, references_links,
                  invalid_links, idx>>

fnVars == <<fn_in, fn_out>>

(***************************************************************************)
(* Bounds of the pure-function specifications.                             *)
(***************************************************************************)
MaxBodyLen == 5
MaxLinkTextLen == 5

(***************************************************************************)
(* Characters.                                                             *)
(***************************************************************************)
Marker == "HASHTAGS:"
Scheme == "https://"
Whitespace == {" ", "\n"}

RECURSIVE SeqsUpTo(_, _)
SeqsUpTo(S, n) ==
    IF n = 0 THEN {<<>>}
    ELSE LET shorter == SeqsUpTo(S, n - 1)
         IN  shorter \cup {Append(s, c) : s \in {x \in shorter : Len(x) = n - 1}, c \in S}

(***************************************************************************)
(* str.strip() and str.split() with no argument.                           *)
(***************************************************************************)
RECURSIVE LStrip(_)
LStrip(t) ==
    IF t # <<>> /\ Head(t) \in Whitespace THEN LStrip(Tail(t)) ELSE t

RECURSIVE RStrip(_)
RStrip(t) ==
    IF t # <<>> /\ t[Len(t)] \in Whitespace
    THEN RStrip(SubSeq(t, 1, Len(t) - 1)) ELSE t

Strip(t) == RStrip(LStrip(t))

RECURSIVE SplitFrom(_, _, _)
SplitFrom(t, i, cur) ==
    IF i > Len(t) THEN (IF cur = <<>> THEN <<>> ELSE <<cur>>)
    ELSE IF t[i] \in Whitespace
         THEN (IF cur = <<>> THEN <<>> ELSE <<cur>>) \o SplitFrom(t, i + 1, <<>>)
         ELSE SplitFrom(t, i + 1, Append(cur, t[i]))

Split(t) == SplitFrom(t, 1, <<>>)

(***************************************************************************)
(* parse_article_response: the pattern HASHTAGS:\s*(.+?)$ under            *)
(* re.MULTILINE | re.DOTALL.                                               *)
(***************************************************************************)
\* `$` under re.MULTILINE: at the end of the text or just before a newline.
\* p is the number of characters already consumed.
AtLineEnd(t, p) == p = Len(t) \/ (p < Len(t) /\ t[p + 1] = "\n")

\* Length of the longest whitespace run starting at index j (greedy \s*).
RECURSIVE WsRun(_, _)
WsRun(t, j) ==
    IF j <= Len(t) /\ t[j] \in Whitespace THEN 1 + WsRun(t, j + 1) ELSE 0

\* Lazy (.+?)$ from index g: the shortest non-empty stretch, any characters
\* (re.DOTALL), that ends at a line end.  0 when there is no character at g.
RECURSIVE LazyEnd(_, _)
LazyEnd(t, e) ==
    IF e > Len(t) THEN 0
    ELSE IF AtLineEnd(t, e) THEN e ELSE LazyEnd(t, e + 1)

\* The match attempt at index i: \s* gives characters back, longest first,
\* until (.+?)$ succeeds.  A record [ok, gs, end]: group 1 is t[gs..end].
RECURSIVE TryWs(_, _, _)
TryWs(t, j, w) ==
    LET e == LazyEnd(t, j + w)
    IN  IF e # 0 THEN [ok |-> TRUE, gs |-> j + w, end |-> e]
        ELSE IF w = 0 THEN [ok |-> FALSE, gs |-> 0, end |-> 0]
        ELSE TryWs(t, j, w - 1)

HashtagsMatchAt(t, i) ==
    IF i <= Len(t) /\ t[i] = Marker
    THEN TryWs(t, i + 1, WsRun(t, i + 1))
    ELSE [ok |-> FALSE, gs |-> 0, end |-> 0]

\* re.search: the leftmost index at which the pattern matches, 0 when none.
RECURSIVE SearchFrom(_, _)
SearchFrom(t, i) ==
    IF i > Len(t) THEN 0
    ELSE IF HashtagsMatchAt(t, i).ok THEN i ELSE SearchFrom(t, i + 1)

hashtags_match(t) == SearchFrom(t, 1)

\* re.sub with count=1: the first match removed only.
RECURSIVE SubFirstOnly(_, _)
SubFirstOnly(t, i) ==
    IF i > Len(t) THEN <<>>
    ELSE LET m == HashtagsMatchAt(t, i)
         IN  IF m.ok THEN SubSeq(t, m.end + 1, Len(t))
             ELSE <<t[i]>> \o SubFirstOnly(t, i + 1)

\* re.sub(pattern, '', content): every non-overlapping match removed.
RECURSIVE SubFrom(_, _)
SubFrom(t, i) ==
    IF i > Len(t) THEN <<>>
    ELSE LET m == HashtagsMatchAt(t, i)
         IN  IF m.ok THEN SubFrom(t, m.end + 1)
             ELSE <<t[i]>> \o SubFrom(t, i + 1)

\* The same with .strip() applied to the content on both branches.
parse_article_response_trimming(response) ==
    LET i == hashtags_match(response)
    IN  IF i # 0
        THEN LET m == HashtagsMatchAt(response, i)
                 hashtags_text == Strip(SubSeq(response, m.gs, m.end))
             IN  [content  |-> Strip(SubFrom(response, 1)),
                  hashtags |-> Split(hashtags_text)]
        ELSE [content |-> Strip(response), hashtags |-> <<>>]

parse_article_response(response) ==
    LET i == hashtags_match(response)
    IN  IF i # 0
        THEN LET m == HashtagsMatchAt(response, i)
                 hashtags_text == Strip(SubSeq(response, m.gs, m.end))
             IN  [content  |-> Strip(SubFrom(response, 1)),
                  hashtags |-> Split(hashtags_text)]
        ELSE [content |-> response, hashtags |-> <<>>]

(***************************************************************************)
(* extract_links: the pattern of scheme, one or more characters of a first *)
(* class, and one character of a narrower final class.                     *)
(***************************************************************************)
Schemes == {"http://", "https://"}

\* Characters the first class refuses.  The grave accent, which a string of
\* this language cannot hold, is written by name.
UrlExcluded ==
    Whitespace \cup {"<", ">", "\"", "{", "}", "|", "\\", "^", "GRAVE", "[", "]"}

\* Characters the final class refuses: the above and . , ; : ! ?
UrlEndExcluded == UrlExcluded \cup {".", ",", ";", ":", "!", "?"}

\* Length of the longest run of first-class characters starting at index j.
\* A scheme element is made of first-class characters only.
RECURSIVE UrlRun(_, _)
UrlRun(t, j) ==
    IF j <= Len(t) /\ t[j] \notin UrlExcluded THEN 1 + UrlRun(t, j + 1) ELSE 0

\* The greedy first class gives characters back until the final class
\* matches the character after it: the match ends at the last index e of
\* the run whose character the final class accepts, with at least one
\* character left for the first class.  A scheme element inside the run is
\* several characters ending in a slash, so it serves both classes by itself.
RECURSIVE UrlBacktrack(_, _, _)
UrlBacktrack(t, i, e) ==
    IF e <= i THEN 0
    ELSE IF t[e] \notin UrlEndExcluded /\ (e - i >= 2 \/ t[e] \in Schemes)
         THEN e
         ELSE UrlBacktrack(t, i, e - 1)

\* End index of the match that starts at index i, 0 when none starts there.
UrlMatchEnd(t, i) ==
    IF i <= Len(t) /\ t[i] \in Schemes
    THEN UrlBacktrack(t, i, i + UrlRun(t, i + 1))
    ELSE 0

\* re.findall: the non-overlapping matches, left to right.
RECURSIVE FindAllFrom(_, _)
FindAllFrom(t, i) ==
    IF i > Len(t) THEN <<>>
    ELSE LET e == UrlMatchEnd(t, i)
         IN  IF e # 0 THEN <<SubSeq(t, i, e)>> \o FindAllFrom(t, e + 1)
             ELSE FindAllFrom(t, i + 1)

extract_links(text) == FindAllFrom(text, 1)

(***************************************************************************)
(* The state of main() before it starts, shared by the specifications of   *)
(* the pure functions, which leave the pipeline alone.                     *)
(***************************************************************************)
PipelineIdle ==
    /\ pc = "Idle"
    /\ api_key = FALSE
    /\ article_type = "LinkedIn Article"
    /\ additional_info = <<>>
    /\ live = {}
    /\ article_response = <<>>
    /\ content = <<>>
    /\ hashtags = <<>>
    /\ title = <<>>
    /\ references = <<>>
    /\ artifact = <<>>
    /\ calls = <<>>
    /\ probes = <<>>
    /\ verified_links = <<>>
    /\ references_text = <<>>
    /\ references_links = <<>>
    /\ invalid_links = <<>>
    /\ idx = 0

NotApplied == [applied |-> FALSE]

(***************************************************************************)
(* SpecParse: parse_article_response applied to every body text of at most *)
(* MaxBodyLen characters.                                                  *)
(***************************************************************************)
BodyAlphabet == {Marker, " ", "\n", "a"}

InitParse ==
    /\ PipelineIdle
    /\ fn_in \in SeqsUpTo(BodyAlphabet, MaxBodyLen)
    /\ fn_out = NotApplied

ApplyParse ==
    /\ fn_out = NotApplied
    /\ LET r == parse_article_response(fn_in)
       IN  fn_out' = [applied |-> TRUE, content |-> r.content, hashtags |-> r.hashtags]
    /\ UNCHANGED <<fn_in, pipelineVars>>

NextParse == ApplyParse

SpecParse == InitParse /\ [][NextParse]_vars

(***************************************************************************)
(* SpecLinks: extract_links applied to every text of at most               *)
(* MaxLinkTextLen characters.                                              *)
(***************************************************************************)
LinkAlphabet == {Scheme, "a", " ", ".", ")", "\""}

InitLinks ==
    /\ PipelineIdle
    /\ fn_in \in SeqsUpTo(LinkAlphabet, MaxLinkTextLen)
    /\ fn_out = NotApplied

ApplyLinks ==
    /\ fn_out = NotApplied
    /\ fn_out' = [applied |-> TRUE, urls |-> extract_links(fn_in)]
    /\ UNCHANGED <<fn_in, pipelineVars>>

NextLinks == ApplyLinks

SpecLinks == InitLinks /\ [][NextLinks]_vars

(***************************************************************************)
(* verify_link: one probe.  What urlopen does is the outside world's       *)
(* choice: it returns a response with a status, or raises.                 *)
(***************************************************************************)
StatusOK == 200

Responded(status) == [status |-> status, exc |-> "none"]
Raised(exc) == [status |-> 0, exc |-> exc]

\* The classes an exception is an instance of.
ExcClasses(exc) ==
    CASE exc = "HTTPError"  -> {"HTTPError", "URLError", "OSError", "Exception"}
      [] exc = "URLError"   -> {"URLError", "OSError", "Exception"}
      [] exc = "timeout"    -> {"timeout", "OSError", "Exception"}
      [] exc = "ValueError" -> {"ValueError", "Exception"}
      [] OTHER              -> {exc, "Exception"}

\* except (URLError, HTTPError, ValueError, Exception)
\* ExceptClauseNarrow is the clause without its catch-all.
ExceptClauseNarrow == {"URLError", "HTTPError", "ValueError"}
ExceptClause == {"URLError", "HTTPError", "ValueError", "Exception"}

\* verify_link returning True for any response, whatever its status.
verify_link_any_status(o) ==
    IF o.exc = "none"
    THEN [ret |-> TRUE, raised |-> FALSE]
    ELSE [ret |-> FALSE, raised |-> FALSE]

\* The result of verify_link when urlopen does o: the value returned, or
\* raised = TRUE when the exception leaves verify_link.
verify_link(o) ==
    IF o.exc = "none"
    THEN [ret |-> o.status = StatusOK, raised |-> FALSE]
    ELSE IF ExcClasses(o.exc) \cap ExceptClause # {}
         THEN [ret |-> FALSE, raised |-> FALSE]
         ELSE [ret |-> FALSE, raised |-> TRUE]

\* What a probe of a link that is not reachable can do: a response that is
\* not 200, an HTTP error status, a connection failure, a timeout, or a URL
\* that urllib refuses as malformed.
DeadOutcomes ==
    {Responded(204), Raised("HTTPError"), Raised("URLError"),
     Raised("timeout"), Raised("ValueError")}

ProbeOutcomes(link) ==
    IF link \in live THEN {Responded(StatusOK)} ELSE DeadOutcomes

(***************************************************************************)
(* The pipeline's inputs and the generative service's possible answers.    *)
(***************************************************************************)
ArticleTypes == {"LinkedIn Article", "Twitter Thread"}
Timestamps == {"20260101_000000", "20260101_000001"}

LinkA == <<Scheme, "a", "a">>
LinkB == <<Scheme, "b", "b", ")">>
LinkC == <<Scheme, "c", "c">>
Links == {LinkA, LinkB, LinkC}

NotesTexts == {<<>>, <<" ">>, LinkA \o <<" ">> \o LinkC}

BodyResponses ==
    {<<"a", " ", "a">>,
     <<"a", "\n", Marker, " ", "#", "a", " ", "#", "b">>,
     <<Marker, " ", "a", "\n", "a", "\n", Marker, " ", "#", "a", "\n">>}

TitleResponses == {<<"T">>, <<" ", "\"", "T", "\"", "\n">>}

RefResponses ==
    {<<"a">>,
     LinkA \o <<"\n">>,
     <<"[", "t", "]", "(", Scheme, "b", "b", ")">>,
     LinkA \o <<" ">> \o LinkC}

\* references = "\n\n## References\n\n*References could not be generated.*"
Placeholder == <<"\n", "\n", "#", "#", " ", "R", "\n", "\n", "*", "R", ".", "*">>

\* str.strip('"\'')
Quotes == {"\"", "'"}

RECURSIVE LStripQuotes(_)
LStripQuotes(t) ==
    IF t # <<>> /\ Head(t) \in Quotes THEN LStripQuotes(Tail(t)) ELSE t

RECURSIVE RStripQuotes(_)
RStripQuotes(t) ==
    IF t # <<>> /\ t[Len(t)] \in Quotes
    THEN RStripQuotes(SubSeq(t, 1, Len(t) - 1)) ELSE t

StripQuotes(t) == RStripQuotes(LStripQuotes(t))

\* One entry of the service log: which stage called, what its prompt
\* embedded, and whether the call returned or raised.
Call(stage, ok, c, t, links) ==
    [stage |-> stage, ok |-> ok, content |-> c, title |-> t, links |-> links]

\* One entry of the probe log.
Probe(phase, link, o, v) ==
    [phase |-> phase, link |-> link, outcome |-> o, ret |-> v.ret,
     raised |-> v.raised, after |-> Len(calls)]

Init ==
    /\ pc = "Body"
    /\ api_key \in BOOLEAN
    /\ article_type \in ArticleTypes
    /\ additional_info \in NotesTexts
    /\ live \in SUBSET Links
    /\ article_response = <<>>
    /\ content = <<>>
    /\ hashtags = <<>>
    /\ title = <<>>
    /\ references = <<>>
    /\ artifact = <<>>
    /\ calls = <<>>
    /\ probes = <<>>
    /\ verified_links = <<>>
    /\ references_text = <<>>
    /\ references_links = <<>>
    /\ invalid_links = <<>>
    /\ idx = 0
    /\ fn_in = <<>>
    /\ fn_out = NotApplied

(***************************************************************************)
(* main(): the body stage.                                                 *)
(***************************************************************************)
\* except Exception: ... sys.exit(1).  BodyErrorContinues is the handler
\* without the exit.
BodyErrorContinues == "Parse"
BodyErrorNext == "Aborted"

\* generate_article raises before any call when the key is not set.
GenerateArticleNoKey ==
    /\ pc = "Body"
    /\ ~api_key
    /\ pc' = BodyErrorNext
    /\ UNCHANGED <<api_key, article_type, additional_info, live, article_response,
                   content, hashtags, title, references, artifact, calls, probes,
                   verified_links, references_text, references_links,
                   invalid_links, idx, fnVars>>

GenerateArticleOk ==
    /\ pc = "Body"
    /\ api_key
    /\ \E r \in BodyResponses :
          /\ article_response' = r
          /\ calls' = Append(calls, Call("body", TRUE, <<>>, <<>>, <<>>))
    /\ pc' = "Parse"
    /\ UNCHANGED <<api_key, article_type, additional_info, live, content, hashtags,
                   title, references, artifact, probes, verified_links,
                   references_text, references_links, invalid_links, idx, fnVars>>

GenerateArticleError ==
    /\ pc = "Body"
    /\ api_key
    /\ calls' = Append(calls, Call("body", FALSE, <<>>, <<>>, <<>>))
    /\ pc' = BodyErrorNext
    /\ UNCHANGED <<api_key, article_type, additional_info, live, article_response,
                   content, hashtags, title, references, artifact, probes,
                   verified_links, references_text, references_links,
                   invalid_links, idx, fnVars>>

(***************************************************************************)
(* main(): content, hashtags = parse_article_response(article_response)    *)
(***************************************************************************)
ParseArticle ==
    /\ pc = "Parse"
    /\ LET r == parse_article_response(article_response)
       IN  /\ content' = r.content
           /\ hashtags' = r.hashtags
    /\ pc' = "Title"
    /\ UNCHANGED <<api_key, article_type, additional_info, live, article_response,
                   title, references, artifact, calls, probes, verified_links,
                   references_text, references_links, invalid_links, idx, fnVars>>

(***************************************************************************)
(* main(): the title stage.                                                *)
(***************************************************************************)
\* The text generate_title is given to build its prompt from: content.
\* TitleArgRaw passes the unparsed response instead.
TitleArgRaw == article_response
TitleArg == content

\* title = f"{args.article_type}_{datetime.now().strftime(...)}"
FallbackTitle(type, ts) == <<type, "_", ts>>

\* After the except branch main goes on to the references stage.
\* TitleErrorAborts is a handler that exits as the body stage's does.
TitleErrorAborts == "Aborted"
TitleErrorNext == "References"

GenerateTitleOk ==
    /\ pc = "Title"
    /\ \E r \in TitleResponses : title' = StripQuotes(Strip(r))
    /\ calls' = Append(calls, Call("title", TRUE, TitleArg, <<>>, <<>>))
    /\ pc' = "References"
    /\ UNCHANGED <<api_key, article_type, additional_info, live, article_response,
                   content, hashtags, references, artifact, probes, verified_links,
                   references_text, references_links, invalid_links, idx, fnVars>>

GenerateTitleError ==
    /\ pc = "Title"
    /\ \E ts \in Timestamps : title' = FallbackTitle(article_type, ts)
    /\ calls' = Append(calls, Call("title", FALSE, TitleArg, <<>>, <<>>))
    /\ pc' = TitleErrorNext
    /\ UNCHANGED <<api_key, article_type, additional_info, live, article_response,
                   content, hashtags, references, artifact, probes, verified_links,
                   references_text, references_links, invalid_links, idx, fnVars>>

(***************************************************************************)
(* generate_references, called by main() inside try/except.                *)
(***************************************************************************)
\* provided_links: the links of additional_info, none when it is blank.
provided_links ==
    IF additional_info # <<>> /\ Strip(additional_info) # <<>>
    THEN extract_links(additional_info)
    ELSE <<>>

\* references = "...*References could not be generated.*"
\* FallbackReferencesFirstPass keeps what the first pass returned instead.
FallbackReferencesFirstPass == references_text
FallbackReferences == Placeholder

\* if invalid_links:   NeverRegenerate is the test left out.
NeverRegenerate(invalid) == FALSE
NeedsRegeneration(invalid) == invalid # <<>>

\* for link in provided_links: if verify_link(link): verified_links.append
EnterReferences ==
    /\ pc = "References"
    /\ idx' = 1
    /\ pc' = "RefNotes"
    /\ UNCHANGED <<api_key, article_type, additional_info, live, article_response,
                   content, hashtags, title, references, artifact, calls, probes,
                   verified_links, references_text, references_links,
                   invalid_links, fnVars>>

VerifyProvided ==
    /\ pc = "RefNotes"
    /\ idx <= Len(provided_links)
    /\ \E o \in ProbeOutcomes(provided_links[idx]) :
          LET v == verify_link(o)
          IN  /\ probes' = Append(probes, Probe("notes", provided_links[idx], o, v))
              /\ IF v.raised
                 THEN /\ references' = FallbackReferences
                      /\ pc' = "Assemble"
                      /\ UNCHANGED <<verified_links, idx>>
                 ELSE /\ verified_links' =
                            IF v.ret THEN Append(verified_links, provided_links[idx])
                            ELSE verified_links
                      /\ idx' = idx + 1
                      /\ UNCHANGED <<references, pc>>
    /\ UNCHANGED <<api_key, article_type, additional_info, live, article_response,
                   content, hashtags, title, artifact, calls, references_text,
                   references_links, invalid_links, fnVars>>

\* response = client.models.generate_content(...), first pass
ReferencesCallOk ==
    /\ pc = "RefNotes"
    /\ idx > Len(provided_links)
    /\ \E r \in RefResponses :
          /\ references_text' = Strip(r)
          /\ references_links' = extract_links(Strip(r))
    /\ calls' = Append(calls, Call("references", TRUE, content, title, verified_links))
    /\ invalid_links' = <<>>
    /\ idx' = 1
    /\ pc' = "RefVerify"
    /\ UNCHANGED <<api_key, article_type, additional_info, live, article_response,
                   content, hashtags, title, references, artifact, probes,
                   verified_links, fnVars>>

ReferencesCallError ==
    /\ pc = "RefNotes"
    /\ idx > Len(provided_links)
    /\ calls' = Append(calls, Call("references", FALSE, content, title, verified_links))
    /\ references' = FallbackReferences
    /\ pc' = "Assemble"
    /\ UNCHANGED <<api_key, article_type, additional_info, live, article_response,
                   content, hashtags, title, artifact, probes, verified_links,
                   references_text, references_links, invalid_links, idx, fnVars>>

\* for link in references_links: verify_link(link) ... invalid_links.append
VerifyReference ==
    /\ pc = "RefVerify"
    /\ idx <= Len(references_links)
    /\ \E o \in ProbeOutcomes(references_links[idx]) :
          LET v == verify_link(o)
          IN  /\ probes' = Append(probes, Probe("references", references_links[idx], o, v))
              /\ IF v.raised
                 THEN /\ references' = FallbackReferences
                      /\ pc' = "Assemble"
                      /\ UNCHANGED <<invalid_links, idx>>
                 ELSE /\ invalid_links' =
                            IF v.ret THEN invalid_links
                            ELSE Append(invalid_links, references_links[idx])
                      /\ idx' = idx + 1
                      /\ UNCHANGED <<references, pc>>
    /\ UNCHANGED <<api_key, article_type, additional_info, live, article_response,
                   content, hashtags, title, artifact, calls, verified_links,
                   references_text, references_links, fnVars>>

\* No invalid link: return references_text
AcceptReferences ==
    /\ pc = "RefVerify"
    /\ idx > Len(references_links)
    /\ ~NeedsRegeneration(invalid_links)
    /\ references' = references_text
    /\ pc' = "Assemble"
    /\ UNCHANGED <<api_key, article_type, additional_info, live, article_response,
                   content, hashtags, title, artifact, calls, probes, verified_links,
                   references_text, references_links, invalid_links, idx, fnVars>>

\* response_retry = client.models.generate_content(...); its text is returned
\* as it is, no loop verifies it.
RegenerateOk ==
    /\ pc = "RefVerify"
    /\ idx > Len(references_links)
    /\ NeedsRegeneration(invalid_links)
    /\ \E r \in RefResponses : references' = Strip(r)
    /\ calls' = Append(calls, Call("regenerate", TRUE, content, title, verified_links))
    /\ pc' = "Assemble"
    /\ UNCHANGED <<api_key, article_type, additional_info, live, article_response,
                   content, hashtags, title, artifact, probes, verified_links,
                   references_text, references_links, invalid_links, idx, fnVars>>

RegenerateError ==
    /\ pc = "RefVerify"
    /\ idx > Len(references_links)
    /\ NeedsRegeneration(invalid_links)
    /\ calls' = Append(calls, Call("regenerate", FALSE, content, title, verified_links))
    /\ references' = FallbackReferences
    /\ pc' = "Assemble"
    /\ UNCHANGED <<api_key, article_type, additional_info, live, article_response,
                   content, hashtags, title, artifact, probes, verified_links,
                   references_text, references_links, invalid_links, idx, fnVars>>

(***************************************************************************)
(* main(): the document is put together and written.                       *)
(***************************************************************************)
WriteArticle ==
    /\ pc = "Assemble"
    /\ artifact' = <<[title |-> title, content |-> content,
                      references |-> references, hashtags |-> hashtags]>>
    /\ pc' = "Done"
    /\ UNCHANGED <<api_key, article_type, additional_info, live, article_response,
                   content, hashtags, title, references, calls, probes,
                   verified_links, references_text, references_links,
                   invalid_links, idx, fnVars>>

Next ==
    \/ GenerateArticleNoKey
    \/ GenerateArticleOk
    \/ GenerateArticleError
    \/ ParseArticle
    \/ GenerateTitleOk
    \/ GenerateTitleError
    \/ EnterReferences
    \/ VerifyProvided
    \/ ReferencesCallOk
    \/ ReferencesCallError
    \/ VerifyReference
    \/ AcceptReferences
    \/ RegenerateOk
    \/ RegenerateError
    \/ WriteArticle

Spec == Init /\ [][Next]_vars

(***************************************************************************)
(* Properties.                                                             *)
(***************************************************************************)
Range(s) == {s[i] : i \in 1..Len(s)}

StageDone == pc \in {"Assemble", "Done"}

CallsOf(stages) == {i \in 1..Len(calls) : calls[i].stage \in stages}

BodyErrored == \E i \in CallsOf({"body"}) : ~calls[i].ok
TitleErrored == \E i \in CallsOf({"title"}) : ~calls[i].ok
FirstReferencesErrored == \E i \in CallsOf({"references"}) : ~calls[i].ok
RegenerateErrored == \E i \in CallsOf({"regenerate"}) : ~calls[i].ok
ReferencesErrored == FirstReferencesErrored \/ RegenerateErrored

IsFallbackTitle(t) == \E ts \in Timestamps : t = <<article_type, "_", ts>>

\* C1: once the references stage is over, the references text is the
\* placeholder or every link in it is Live; no Dead link is shipped.
C1_NoDeadLinkShipped ==
    StageDone =>
        \/ references = Placeholder
        \/ Range(extract_links(references)) \subseteq live

\* C2: the regeneration call is issued exactly once when a link of the
\* first-pass text probes Dead and not at all when every link probes Live
\* or there is none; there is one first-pass call at most and never a third
\* references call; no probe follows the regeneration call, and when that
\* call returns, its text is the references text whatever its links are.
C2_RegenerateExactlyOnce ==
    /\ Cardinality(CallsOf({"references"})) <= 1
    /\ Cardinality(CallsOf({"regenerate"})) <= 1
    /\ \A i \in CallsOf({"regenerate"}) :
          /\ i = Len(calls)
          /\ CallsOf({"references"}) = {i - 1}
          /\ calls[i - 1].ok
          /\ calls[i].ok => references # Placeholder
    /\ \A k \in 1..Len(probes) :
          probes[k].phase = "references" =>
              /\ probes[k].after \in CallsOf({"references"})
              /\ probes[k].after = Len(calls) \/ probes[k].after = Len(calls) - 1
    /\ (StageDone /\ CallsOf({"references"}) # {} /\ ~FirstReferencesErrored) =>
          /\ Range(extract_links(references_text)) \subseteq live
                => CallsOf({"regenerate"}) = {} /\ references = references_text
          /\ ~(Range(extract_links(references_text)) \subseteq live)
                => Cardinality(CallsOf({"regenerate"})) = 1

\* A regenerated text whose links are all Dead has been accepted.
C2_Witness ==
    /\ pc = "Done"
    /\ CallsOf({"regenerate"}) # {}
    /\ ~RegenerateErrored
    /\ extract_links(references) # <<>>
    /\ Range(extract_links(references)) \cap live = {}

\* C3: when the body call errors the run aborts: one body call and no other
\* call, no parse, no title, no references, no probe, no artifact.
C3_BodyErrorAborts ==
    BodyErrored =>
        /\ pc = "Aborted"
        /\ Len(calls) = 1
        /\ content = <<>> /\ hashtags = <<>>
        /\ title = <<>>
        /\ references = <<>>
        /\ probes = <<>>
        /\ artifact = <<>>

C3_Witness == BodyErrored /\ pc = "Aborted"

\* C4: when the title call errors the run does not fail: the title is the
\* fallback made of the format identifier and a timestamp, every references
\* call embeds that title, the first references call is made, and the run
\* never aborts nor stops short of Done, where the artifact has that title.
\* Every step of main() appends to a log or moves pc forward, so a run that
\* can always step until Done reaches Done.
C4_TitleErrorFallsBack ==
    TitleErrored =>
        /\ pc # "Aborted"
        /\ IsFallbackTitle(title)
        /\ \A i \in CallsOf({"references", "regenerate"}) : calls[i].title = title
        /\ StageDone => CallsOf({"references"}) # {}
        /\ pc = "Done" => artifact[1].title = title
        /\ pc = "Done" \/ ENABLED Next

C4_Witness ==
    /\ TitleErrored
    /\ pc = "Done"
    /\ CallsOf({"regenerate"}) # {}

\* C5: when the first references call or the regeneration call errors, the
\* references text is the placeholder, not the first-pass text, and the run
\* goes on, never stopping short of Done, where the artifact holds the
\* title, content and hashtags produced before.
C5_ReferencesErrorFallsBack ==
    ReferencesErrored =>
        /\ StageDone
        /\ references = Placeholder
        /\ references # references_text
        /\ pc = "Done" \/ ENABLED Next
        /\ pc = "Done" =>
              artifact = <<[title |-> title,
                            content |-> parse_article_response(article_response).content,
                            references |-> Placeholder,
                            hashtags |-> parse_article_response(article_response).hashtags]>>

C5_Witness ==
    /\ RegenerateErrored
    /\ pc = "Done"
    /\ references_text # <<>>
    /\ hashtags # <<>>

\* C6: the calls form the chain body, title, references, regeneration; the
\* title call comes after the body has returned and been parsed and embeds
\* the parsed content, in which no hashtag section is left; every references
\* call comes after the title call and embeds the resolved title and the
\* parsed content; no stage is entered before the one before it is over.
C6_LinearChain ==
    LET parsed == parse_article_response(article_response)
    IN  /\ \A i \in CallsOf({"body"}) : i = 1
        /\ \A i \in CallsOf({"title"}) :
              /\ i = 2
              /\ calls[1].stage = "body" /\ calls[1].ok
              /\ calls[i].content = parsed.content
              /\ hashtags_match(calls[i].content) = 0
        /\ \A i \in CallsOf({"references", "regenerate"}) :
              /\ i >= 3
              /\ calls[2].stage = "title"
              /\ calls[i].title = title
              /\ calls[i].content = parsed.content
        /\ \A i \in CallsOf({"references"}) : i = 3
        /\ \A i \in CallsOf({"regenerate"}) : i = 4 /\ calls[3].stage = "references"
        /\ pc \in {"Parse", "Title"} => Len(calls) = 1 /\ calls[1].ok
        /\ pc = "Title" => content = parsed.content /\ hashtags = parsed.hashtags
        /\ pc \in {"References", "RefNotes"} => Len(calls) = 2
        /\ pc = "RefVerify" => Len(calls) = 3 /\ calls[3].ok

C6_Witness ==
    /\ pc = "Done"
    /\ CallsOf({"regenerate"}) # {}
    /\ content # article_response
    /\ ~TitleErrored

MarkerAt(t) == {i \in 1..Len(t) : t[i] = Marker}

LastOf(S) == CHOOSE i \in S : \A j \in S : j <= i

\* C7: for a body text that holds the marker, hashtags are the tokens of
\* everything after the last marker up to the end of the text, and content
\* is the text before that marker, trimmed.  It is stated for the texts that
\* suit the claim best: every marker opens a line and text that is not
\* blank follows the last one.
C7_LastMarkerToEndOfText ==
    (/\ fn_out.applied
     /\ MarkerAt(fn_in) # {}
     /\ \A i \in MarkerAt(fn_in) : i = 1 \/ fn_in[i - 1] = "\n"
     /\ Strip(SubSeq(fn_in, LastOf(MarkerAt(fn_in)) + 1, Len(fn_in))) # <<>>)
    => LET i == LastOf(MarkerAt(fn_in))
       IN  /\ fn_out.hashtags = Split(SubSeq(fn_in, i + 1, Len(fn_in)))
           /\ fn_out.content = Strip(SubSeq(fn_in, 1, i - 1))

\* C8: for a body text without the marker, content is the text unchanged,
\* not even trimmed, the hashtags are empty, and no marker is in the content.
C8_NoMarkerUnchanged ==
    (fn_out.applied /\ MarkerAt(fn_in) = {}) =>
        /\ fn_out.content = fn_in
        /\ fn_out.hashtags = <<>>
        /\ MarkerAt(fn_out.content) = {}

\* A text without marker whose ends are blank has been parsed.
C8_Witness ==
    /\ fn_out.applied
    /\ MarkerAt(fn_in) = {}
    /\ Strip(fn_in) # fn_in
    /\ Strip(fn_in) # <<>>

\* A well-formed URL of the link texts: the scheme and two or more address
\* characters.  UrlBody(t, i) is the number of address characters at index i.
RECURSIVE UrlBody(_, _)
UrlBody(t, j) ==
    IF j <= Len(t) /\ t[j] = "a" THEN 1 + UrlBody(t, j + 1) ELSE 0

\* The text is well-formed URLs with whitespace or punctuation between them:
\* every scheme opens a URL and does not touch the URL before it, and every
\* address character belongs to a URL.
IsUrlList(t) ==
    /\ \A i \in 1..Len(t) :
          t[i] = Scheme => UrlBody(t, i + 1) >= 2 /\ (i = 1 \/ t[i - 1] # "a")
    /\ \A i \in 1..Len(t) :
          t[i] = "a" => i > 1 /\ t[i - 1] \in {Scheme, "a"}

RECURSIVE UrlsFrom(_, _)
UrlsFrom(t, i) ==
    IF i > Len(t) THEN <<>>
    ELSE IF t[i] = Scheme
         THEN <<SubSeq(t, i, i + UrlBody(t, i + 1))>> \o UrlsFrom(t, i + 1)
         ELSE UrlsFrom(t, i + 1)

\* C9: for a text of N well-formed URLs separated by whitespace or
\* punctuation, extract_links returns exactly those N URLs, in order,
\* repeated ones included, none with a closing character stuck to its end.
C9_ExactlyTheUrls ==
    (fn_out.applied /\ IsUrlList(fn_in)) => fn_out.urls = UrlsFrom(fn_in, 1)

\* C10: a probe returns true only on a response with status 200; a malformed
\* URL, a transport error, a timeout and any other status give false; no
\* probe raises, and the placeholder, which is what main() substitutes when
\* generate_references raises, appears only after a service error.
C10_VerifyNeverRaises ==
    /\ \A k \in 1..Len(probes) :
          /\ ~probes[k].raised
          /\ probes[k].ret <=> probes[k].outcome = Responded(StatusOK)
    /\ references = Placeholder => ReferencesErrored

\* A probe has timed out, another met a status that is not 200, a third
\* succeeded, and the stage went on to the end.
C10_Witness ==
    /\ pc = "Done"
    /\ references # Placeholder
    /\ \E k \in 1..Len(probes) : probes[k].outcome = Raised("timeout")
    /\ \E k \in 1..Len(probes) : probes[k].outcome = Responded(204)
    /\ \E k \in 1..Len(probes) : probes[k].ret

\* C11: parsing the content that parse returned finds no hashtags: no
\* marker that the pattern matches is left in the content.
C11_ParseOfContentHasNoHashtags ==
    fn_out.applied =>
        /\ parse_article_response(fn_out.content).hashtags = <<>>
        /\ hashtags_match(fn_out.content) = 0
        /\ parse_article_response(fn_out.content).content = fn_out.content

\* A text with two marker lines has been parsed, and one with a marker left
\* at the very end of the content, where the pattern does not match it.
C11_Witness ==
    /\ fn_out.applied
    /\ hashtags_match(fn_in) # 0
    /\ fn_out.hashtags # <<>>
    /\ Cardinality(MarkerAt(fn_in)) = 2
    /\ MarkerAt(fn_out.content) # {}

IsNotesProbe(p) == p.phase = "notes"
IsReferencesProbe(p) == p.phase = "references"

NotesProbes == SelectSeq(probes, IsNotesProbe)
ReferencesProbes == SelectSeq(probes, IsReferencesProbe)

\* The links of the probes that returned true, in the order of the probes.
RECURSIVE LinksProbedLive(_)
LinksProbedLive(ps) ==
    IF ps = <<>> THEN <<>>
    ELSE (IF Head(ps).ret THEN <<Head(ps).link>> ELSE <<>>)
         \o LinksProbedLive(Tail(ps))

\* C12: when a references call is made, first pass or regeneration, every
\* link of the supplementary notes has been probed, before the first
\* references call and in the order of the notes; the links the prompt lists
\* are those that probed Live, in that order, all of them Live, and none of
\* them a link whose probe failed.  verified_links is at all times the
\* links probed Live so far.
C12_OnlyLiveNotesLinksListed ==
    LET notes == extract_links(additional_info)
        np == NotesProbes
    IN  /\ verified_links = LinksProbedLive(np)
        /\ Len(np) <= Len(notes)
        /\ \A k \in 1..Len(np) :
              /\ probes[k] = np[k]
              /\ np[k].link = notes[k]
              /\ np[k].after = 2
        /\ \A i \in CallsOf({"references", "regenerate"}) :
              /\ i > 2
              /\ Len(np) = Len(notes)
              /\ calls[i].links = LinksProbedLive(np)
              /\ Range(calls[i].links) \subseteq live
              /\ \A k \in 1..Len(np) :
                    ~np[k].ret => np[k].link \notin Range(calls[i].links)

\* Of two notes links one probed Dead and one Live, and both the first
\* references prompt and the regeneration prompt have been composed.
C12_Witness ==
    /\ pc = "Done"
    /\ CallsOf({"regenerate"}) # {}
    /\ Len(NotesProbes) = 2
    /\ ~NotesProbes[1].ret
    /\ NotesProbes[2].ret
    /\ calls[3].links = <<NotesProbes[2].link>>

\* The references text handed on is the first-pass text: the first call
\* returned, no regeneration was called and no placeholder substituted.
FirstPassShipped ==
    /\ StageDone
    /\ CallsOf({"references"}) # {}
    /\ ~FirstReferencesErrored
    /\ CallsOf({"regenerate"}) = {}
    /\ references # Placeholder

\* C13: when the first-pass text is the final references text, each link
\* extracted from it was probed, in order, after the call that generated
\* it, each of those probes returned Live, and each link is Live.
C13_FirstPassLinksAllProbedLive ==
    FirstPassShipped =>
        LET links == extract_links(references)
            rp == ReferencesProbes
        IN  /\ references = references_text
            /\ Len(rp) = Len(links)
            /\ \A k \in 1..Len(rp) :
                  /\ rp[k].link = links[k]
                  /\ rp[k].after = 3
                  /\ calls[rp[k].after].stage = "references"
                  /\ rp[k].ret
                  /\ rp[k].outcome = Responded(StatusOK)
            /\ Range(links) \subseteq live

\* A first-pass text with two links, both probed Live, has been shipped.
C13_Witness ==
    /\ pc = "Done"
    /\ FirstPassShipped
    /\ Len(extract_links(references)) = 2
    /\ Len(ReferencesProbes) = 2

\* The references call and its regeneration are calls of one stage.
StageOf(c) == IF c.stage = "regenerate" THEN "references" ELSE c.stage

\* How far main() has come; every step of Next raises it.
PcRank ==
    CASE pc = "Body"       -> 0
      [] pc = "Parse"      -> 10
      [] pc = "Title"      -> 20
      [] pc = "References" -> 30
      [] pc = "RefNotes"   -> 40
      [] pc = "RefVerify"  -> 50
      [] pc = "Assemble"   -> 60
      [] OTHER             -> 70

Progress == PcRank + Len(calls) + Len(probes) + idx

\* Some step of main() is possible.  ParseArticle has no condition but its
\* position, which is written out.
CanStep ==
    \/ pc = "Parse"
    \/ ENABLED (\/ GenerateArticleNoKey \/ GenerateArticleOk \/ GenerateArticleError
                \/ GenerateTitleOk \/ GenerateTitleError \/ EnterReferences
                \/ VerifyProvided \/ ReferencesCallOk \/ ReferencesCallError
                \/ VerifyReference \/ AcceptReferences \/ RegenerateOk
                \/ RegenerateError \/ WriteArticle)

\* What C14 says apart from the number of body calls: four calls at most,
\* one title call and two references calls at most, no stage called again
\* after a call of it errored, and a run that is over only when it is Done
\* or was Aborted at the body stage, with no call that returned.
C14_CallBounds ==
    /\ Len(calls) <= 4
    /\ Cardinality(CallsOf({"body"})) <= 1
    /\ Cardinality(CallsOf({"title"})) <= 1
    /\ Cardinality(CallsOf({"references", "regenerate"})) <= 2
    /\ \A i \in 1..Len(calls) : \A j \in 1..Len(calls) :
          (i < j /\ ~calls[i].ok) => StageOf(calls[j]) # StageOf(calls[i])
    /\ pc \in {"Done", "Aborted"} \/ CanStep
    /\ pc = "Aborted" =>
          /\ \A i \in 1..Len(calls) : calls[i].stage = "body" /\ ~calls[i].ok
          /\ content = <<>> /\ title = <<>> /\ references = <<>>
          /\ artifact = <<>>
    /\ pc = "Done" => artifact # <<>>

\* C14 as stated: the above, and exactly one body call in any run, counted
\* once the body stage is over.
C14_ExactlyOneBodyCall ==
    /\ C14_CallBounds
    /\ pc # "Body" => Cardinality(CallsOf({"body"})) = 1

\* The number of body calls as the code has it: one exactly when the key
\* is set; a run without the key aborts at the body stage with no call.
C14_BodyCallsByKey ==
    /\ pc # "Body" =>
          Cardinality(CallsOf({"body"})) = (IF api_key THEN 1 ELSE 0)
    /\ ~api_key => pc \in {"Body", "Aborted"} /\ calls = <<>>

\* C14 as amended: the bounds above with that number of body calls; and
\* every run ends, Aborted or Done: each step raises Progress, which is
\* bounded, and a step is possible until the run is Aborted or Done.
C14_AtMostFourCalls ==
    /\ [](C14_CallBounds /\ C14_BodyCallsByKey /\ Progress <= 81)
    /\ [][Progress' > Progress]_vars

\* A run of four calls, the last of which errored, has reached Done.
C14_Witness ==
    /\ pc = "Done"
    /\ Len(calls) = 4
    /\ RegenerateErrored
    /\ TitleErrored

====
